---- MODULE Spec2Model ----
(***************************************************************************)
(* Model of the split arithmetic of the v4v crate (src/pc20/calc.rs):      *)
(* compute_sat_recipients, gcd, fee_recipients_to_splits and               *)
(* use_remote_splits, of clip_recipients_at_amount                         *)
(* (src/pc20/forwarding.rs) and of the crate-root compute_sat_recipients   *)
(* (src/lib.rs).  Each function is an operator that follows its source     *)
(* statement by statement; the crate-root function, whose loop may not     *)
(* end, is a sequence of steps.                                            *)
(*                                                                         *)
(* The functions are pure; the state of the model is the last call made    *)
(* by a client of the library (`call`) and what that call produced         *)
(* (`ret`), together with the values of the locals the function went       *)
(* through.  The u64 / i64 / u128 types of the source are modelled by      *)
(* Width-bit unsigned, Width-bit two's complement and 2*Width-bit unsigned *)
(* integers.  Arithmetic that Rust checks only when overflow checks are    *)
(* compiled in (debug profile) panics or wraps according to the            *)
(* overflow_checks flag of the call; `as` casts always wrap.               *)
(***************************************************************************)
EXTENDS Integers, Sequences, FiniteSets, TLC

VARIABLES call, ret

vars == <<call, ret>>

(***************************************************************************)
(* Bounds of the model.                                                    *)
(***************************************************************************)
\* Number of bits of the narrow unsigned type (u64 in the source).
Width == 10
\* Longest splits vector handed to compute_sat_recipients.
MaxLen == 6
\* Most recipients with a positive split, and most recipients with a zero
\* split after them, in the long splits vectors handed to
\* compute_sat_recipients.
MaxHeavy == 3
MaxTail == 6
\* Longest recipients vector handed to fee_recipients_to_splits.
MaxRecipients == 4
\* Longest splits vector handed to the crate-root compute_sat_recipients.
MaxRootLen == 2
\* Longest recipients list handed to clip_recipients_at_amount.
MaxClipped == 3
\* Longest local and longest remote vector handed to use_remote_splits.
MaxSplits == 2

(***************************************************************************)
(* Integer types.                                                          *)
(***************************************************************************)
RECURSIVE Pow2(_)
Pow2(n) == IF n = 0 THEN 1 ELSE 2 * Pow2(n - 1)

\* Number of values of the narrow type.
U64_RANGE == Pow2(Width)
\* u64::MAX
U64_MAX == U64_RANGE - 1
\* i64::MIN and i64::MAX
I64_MIN == 0 - Pow2(Width - 1)
I64_MAX == Pow2(Width - 1) - 1
\* Number of values of the wide type, and u128::MAX.
U128_RANGE == Pow2(2 * Width)
U128_MAX == U128_RANGE - 1

\* `x as u64`: keeps the low Width bits.
AsU64(x) == x % U64_RANGE
\* `x as i64`: reinterprets the low Width bits as two's complement.
AsI64(x) == IF x % U64_RANGE > I64_MAX THEN (x % U64_RANGE) - U64_RANGE ELSE x % U64_RANGE
\* i64::unsigned_abs
unsigned_abs(x) == IF x < 0 THEN 0 - x ELSE x

Max(a, b) == IF a >= b THEN a ELSE b

RECURSIVE SumSeq(_)
SumSeq(s) == IF s = <<>> THEN 0 ELSE Head(s) + SumSeq(Tail(s))

Range(s) == {s[i] : i \in DOMAIN s}

(***************************************************************************)
(* compute_sat_recipients                                                  *)
(***************************************************************************)
\* splits.iter().cloned().enumerate().map(|(i, s)| (i, s as u128)); positions
\* are counted from 1 here.
Enumerate(splits) == [i \in DOMAIN splits |-> <<i, splits[i]>>]

\* LessIncreasingSplit with equal splits ordered by increasing index.
LessIncreasingSplitAndIndex(x, y) == x[2] < y[2] \/ (x[2] = y[2] /\ x[1] < y[1])

\* "Sort by increasing splits, then by decreasing index."
LessIncreasingSplit(x, y) == x[2] < y[2] \/ (x[2] = y[2] /\ y[1] < x[1])

\* LessDecreasingSplit without the Reverse.
LessSmallerSplit(x, y) == x[2] < y[2]

\* sort_by_key(|&(_, split)| Reverse(split))
LessDecreasingSplit(x, y) == x[2] > y[2]

\* Comparator of indexed_splits_with_amounts: elements are (index, split, amount).
LessRemovalOrder(x, y) ==
    IF x[3] >= 2 /\ y[3] >= 2 THEN x[2] < y[2]
    ELSE IF x[3] >= 2 THEN TRUE
    ELSE IF y[3] >= 2 THEN FALSE
    ELSE IF x[3] >= 1 /\ y[3] >= 1 THEN x[2] < y[2]
    ELSE IF x[3] >= 1 THEN TRUE
    ELSE IF y[3] >= 1 THEN FALSE
    ELSE y[1] < x[1]

\* The three comparators, by name.
Precedes(comparator, x, y) ==
    IF comparator = "increasing split" THEN LessIncreasingSplit(x, y)
    ELSE IF comparator = "decreasing split" THEN LessDecreasingSplit(x, y)
    ELSE LessRemovalOrder(x, y)

\* slice::sort_by / sort_by_key: a stable sort, so the result is the one
\* permutation that orders by the comparator and keeps the previous order of
\* the elements it does not separate: stable insertion, element by element.
RECURSIVE InsertSorted(_, _, _)
InsertSorted(comparator, sorted, x) ==
    IF sorted = <<>> THEN <<x>>
    ELSE IF Precedes(comparator, x, sorted[Len(sorted)])
    THEN Append(InsertSorted(comparator, SubSeq(sorted, 1, Len(sorted) - 1), x),
                sorted[Len(sorted)])
    ELSE Append(sorted, x)

RECURSIVE StableSortBy(_, _)
StableSortBy(comparator, s) ==
    IF s = <<>> THEN <<>>
    ELSE InsertSorted(comparator, StableSortBy(comparator, SubSeq(s, 1, Len(s) - 1)),
                      s[Len(s)])

\* An empty vector instead of one zero per recipient.
ZeroVectorEmpty(splits) == <<>>

\* vec![0; num_recipients]
ZeroVector(splits) == [i \in DOMAIN splits |-> 0]

\* DistributeEvenly with the remainder handed to the last recipients.
DistributeEvenlyFromEnd(splits, total_sats) ==
    LET num_recipients == Len(splits)
        base_amount == total_sats \div num_recipients
        remainder == total_sats % num_recipients
    IN  [i \in DOMAIN splits |->
            IF i > num_recipients - remainder THEN base_amount + 1 ELSE base_amount]

\* All splits zero: distribute evenly, the first `remainder` get one more.
DistributeEvenly(splits, total_sats) ==
    LET num_recipients == Len(splits)
        base_amount == total_sats \div num_recipients
        remainder == total_sats % num_recipients
    IN  [i \in DOMAIN splits |-> IF i <= remainder THEN base_amount + 1 ELSE base_amount]

\* Proportional with the splits summed in the narrow type.
ProportionalNarrowSum(splits, total_sats) ==
    LET total_split == AsU64(SumSeq(splits))
    IN  [i \in DOMAIN splits |->
            IF total_split = 0 THEN 0
            ELSE AsU64((splits[i] * total_sats) \div total_split)]

\* Proportional with the product taken in the narrow type.
ProportionalNarrow(splits, total_sats) ==
    LET total_split == AsU64(SumSeq(splits))
    IN  [i \in DOMAIN splits |->
            IF total_split = 0 THEN 0 ELSE AsU64(splits[i] * total_sats) \div total_split]

\* "Distribute sats proportionally"
Proportional(splits, total_sats) ==
    LET total_split == SumSeq(splits)
    IN  [i \in DOMAIN splits |-> AsU64((splits[i] * total_sats) \div total_split)]

\* GiveOneSat that also tops up those who have a sat already.
GiveOneSatToAll(amounts) == [i \in DOMAIN amounts |-> amounts[i] + 1]

\* GiveOneSat that gives nothing.
GiveNoSat(amounts) == amounts

\* "Give one sat to everyone who doesn't have it"
GiveOneSat(amounts) == [i \in DOMAIN amounts |-> IF amounts[i] = 0 THEN 1 ELSE amounts[i]]

\* "First iteration: Remove from those that have at least two sats."
\* Loop over indexed_splits from position k on.
RECURSIVE FirstRemoval(_, _, _, _, _, _)
FirstRemoval(indexed_splits, k, sat_amounts, balance, initial_balance, total_split) ==
    IF k > Len(indexed_splits)
    THEN [sat_amounts |-> sat_amounts, balance |-> balance]
    ELSE LET index == indexed_splits[k][1]
             split == indexed_splits[k][2]
             amount_to_remove ==
                 Max((split * unsigned_abs(initial_balance)) \div total_split, 1)
             remove == balance < 0 /\ sat_amounts[index] > AsU64(amount_to_remove)
             sat_amounts2 == IF remove
                             THEN [sat_amounts EXCEPT ![index] = @ - AsU64(amount_to_remove)]
                             ELSE sat_amounts
             balance2 == IF remove THEN balance + AsI64(amount_to_remove) ELSE balance
         IN  IF balance2 = 0
             THEN [sat_amounts |-> sat_amounts2, balance |-> balance2]
             ELSE FirstRemoval(indexed_splits, k + 1, sat_amounts2, balance2,
                               initial_balance, total_split)

\* Second loop of the negative-balance branch: one sat from each recipient that
\* has any, in the order of indexed_splits.
RECURSIVE SecondRemoval(_, _, _, _)
SecondRemoval(indexed_splits, k, sat_amounts, balance) ==
    IF k > Len(indexed_splits)
    THEN [sat_amounts |-> sat_amounts, balance |-> balance]
    ELSE LET index == indexed_splits[k][1]
             remove == balance < 0 /\ sat_amounts[index] > 0
             sat_amounts2 == IF remove THEN [sat_amounts EXCEPT ![index] = @ - 1]
                                       ELSE sat_amounts
             balance2 == IF remove THEN balance + 1 ELSE balance
         IN  IF balance2 = 0
             THEN [sat_amounts |-> sat_amounts2, balance |-> balance2]
             ELSE SecondRemoval(indexed_splits, k + 1, sat_amounts2, balance2)

\* Ordering::Less branch.
RemoveSats(splits, sat_amounts, balance) ==
    LET total_split == SumSeq(splits)
        indexed_splits == StableSortBy("increasing split", Enumerate(splits))
        first == FirstRemoval(indexed_splits, 1, sat_amounts, balance, balance, total_split)
        indexed_splits_with_amounts ==
            [k \in DOMAIN indexed_splits |->
                <<indexed_splits[k][1], indexed_splits[k][2],
                  first.sat_amounts[indexed_splits[k][1]]>>]
        reordered == StableSortBy("removal order", indexed_splits_with_amounts)
    IN  IF first.balance < 0
        THEN SecondRemoval(reordered, 1, first.sat_amounts, first.balance)
        ELSE first

\* Ordering::Greater branch: "Single iteration: add sats to recipients".
RECURSIVE AddLoop(_, _, _, _)
AddLoop(indexed_splits, k, sat_amounts, balance) ==
    IF k > Len(indexed_splits) \/ balance <= 0
    THEN [sat_amounts |-> sat_amounts, balance |-> balance]
    ELSE AddLoop(indexed_splits, k + 1,
                 [sat_amounts EXCEPT ![indexed_splits[k][1]] = @ + 1], balance - 1)

\* AddSats that hands the whole balance to the first recipient of the order.
AddSatsToFirst(splits, sat_amounts, balance) ==
    LET indexed_splits == StableSortBy("decreasing split", Enumerate(splits))
    IN  [sat_amounts |-> [sat_amounts EXCEPT ![indexed_splits[1][1]] = @ + balance],
         balance |-> 0]

AddSats(splits, sat_amounts, balance) ==
    AddLoop(StableSortBy("decreasing split", Enumerate(splits)), 1, sat_amounts, balance)

\* What a call of compute_sat_recipients produces.  panic: the call aborted;
\* sat_amounts: the vector returned; proportional, with_minimum, balance: the
\* locals after the proportional step, after the one-sat step and the balance
\* computed from them; final_balance: balance when the function returns; path:
\* the branch taken.
Returned(path, sat_amounts, proportional, with_minimum, balance, final_balance) ==
    [panic |-> FALSE, path |-> path, sat_amounts |-> sat_amounts,
     proportional |-> proportional, with_minimum |-> with_minimum,
     balance |-> balance, final_balance |-> final_balance]

Panicked(path, proportional, with_minimum) ==
    [panic |-> TRUE, path |-> path, sat_amounts |-> <<>>,
     proportional |-> proportional, with_minimum |-> with_minimum,
     balance |-> 0, final_balance |-> 0]

compute_sat_recipients(splits, total_sats, overflow_checks) ==
    LET num_recipients == Len(splits)
        total_split == SumSeq(splits)
        zeros == ZeroVector(splits)
        proportional == Proportional(splits, total_sats)
        with_minimum == GiveOneSat(proportional)
        \* sat_amounts.iter().sum::<u64>()
        sum == SumSeq(with_minimum)
        \* total_sats as i64 - sum as i64
        difference == AsI64(total_sats) - AsI64(sum)
        balance == AsI64(difference)
        adjusted == IF balance < 0 THEN RemoveSats(splits, with_minimum, balance)
                    ELSE IF balance > 0 THEN AddSats(splits, with_minimum, balance)
                    ELSE [sat_amounts |-> with_minimum, balance |-> balance]
    IN  IF num_recipients = 0 \/ total_sats = 0
        THEN Returned("empty", zeros, <<>>, <<>>, 0, 0)
        ELSE IF total_split = 0
        THEN Returned("even", DistributeEvenly(splits, total_sats), <<>>, <<>>, 0, 0)
        ELSE IF overflow_checks /\ sum > U64_MAX
        THEN Panicked("sum", proportional, with_minimum)
        ELSE IF overflow_checks /\ (difference < I64_MIN \/ difference > I64_MAX)
        THEN Panicked("balance", proportional, with_minimum)
        ELSE Returned(IF balance < 0 THEN "less" ELSE IF balance > 0 THEN "greater" ELSE "equal",
                      adjusted.sat_amounts, proportional, with_minimum,
                      balance, adjusted.balance)

(***************************************************************************)
(* gcd and fee_recipients_to_splits                                        *)
(***************************************************************************)
ShareBased(num_shares) == [kind |-> "ShareBased", num_shares |-> num_shares]
PercentageBased(percentage) == [kind |-> "PercentageBased", percentage |-> percentage]

IsShareBased(r) == r.kind = "ShareBased"
IsPercentageBased(r) == r.kind = "PercentageBased"

\* The smaller non-zero argument instead of the greatest common divisor.
gcd_smaller(a, b) == IF a = 0 THEN b ELSE IF b = 0 THEN a ELSE IF a < b THEN a ELSE b

RECURSIVE gcd(_, _)
gcd(a, b) == IF b = 0 THEN a ELSE gcd(b, a % b)

\* values.iter().filter(|&&x| x != 0).fold(0u128, |acc, &x| gcd(acc, x))
RECURSIVE GcdFold(_, _)
GcdFold(acc, values) ==
    IF values = <<>> THEN acc
    ELSE GcdFold(IF Head(values) # 0 THEN gcd(acc, Head(values)) ELSE acc, Tail(values))

GcdOfNonZero(values) == GcdFold(0, values)

\* *result.iter().max().unwrap_or(&0)
MaxOf(values) ==
    IF values = <<>> THEN 0
    ELSE CHOOSE m \in Range(values) : \A x \in Range(values) : x <= m

\* Quotient and remainder of x * u by m, computed bit by bit of u so that no
\* intermediate value exceeds 3 * m.
RECURSIVE MulDiv(_, _, _)
MulDiv(x, u, m) ==
    IF u = 0 THEN [quotient |-> 0, remainder |-> 0]
    ELSE LET half == MulDiv(x, u \div 2, m)
             r == 2 * half.remainder + (IF u % 2 = 1 THEN x ELSE 0)
         IN  [quotient |-> 2 * half.quotient + r \div m, remainder |-> r % m]

\* (x as f64 * scale_factor).round() as u64 with scale_factor =
\* u64::MAX as f64 / max_value as f64.  The float arithmetic is taken as exact;
\* round() rounds half away from zero and the cast to u64 saturates.
Rescale(x, max_value) ==
    LET scaled == MulDiv(x, U64_MAX, max_value)
        rounded == scaled.quotient + (IF 2 * scaled.remainder >= max_value THEN 1 ELSE 0)
    IN  IF rounded > U64_MAX THEN U64_MAX ELSE rounded

\* The u128 sums of the percentages and of the shares.
TotalPercentage(recipients) ==
    SumSeq([i \in DOMAIN recipients |->
                IF IsPercentageBased(recipients[i]) THEN recipients[i].percentage ELSE 0])

TotalShares(recipients) ==
    SumSeq([i \in DOMAIN recipients |->
                IF IsShareBased(recipients[i]) THEN recipients[i].num_shares ELSE 0])

\* total_percentage > 100
FeeAtLeast100(total_percentage) == total_percentage >= 100

FeeExceeds100(total_percentage) == total_percentage > 100

\* !share_recipients.is_empty()
SharesAreNonZero(recipients) == TotalShares(recipients) > 0

NonFeeRecipientsExist(recipients) == SelectSeq(recipients, IsShareBased) # <<>>

\* RawSplits with the percentages never scaled by total_shares.
RawSplitsUnscaled(recipients) ==
    LET remaining_percentage == 100 - TotalPercentage(recipients)
    IN  [i \in DOMAIN recipients |->
            IF IsShareBased(recipients[i])
            THEN recipients[i].num_shares * remaining_percentage
            ELSE recipients[i].percentage]

\* RawSplits with the remaining percentage added to the shares.
RawSplitsAdded(recipients) ==
    LET share_recipients == SelectSeq(recipients, IsShareBased)
        remaining_percentage == 100 - TotalPercentage(recipients)
        total_shares == TotalShares(recipients)
    IN  [i \in DOMAIN recipients |->
            IF IsShareBased(recipients[i])
            THEN recipients[i].num_shares + remaining_percentage
            ELSE IF share_recipients = <<>>
                 THEN recipients[i].percentage
                 ELSE recipients[i].percentage * total_shares]

\* The value pushed for each recipient, before any u128 wrap-around.
RawSplits(recipients) ==
    LET share_recipients == SelectSeq(recipients, IsShareBased)
        remaining_percentage == 100 - TotalPercentage(recipients)
        total_shares == TotalShares(recipients)
    IN  [i \in DOMAIN recipients |->
            IF IsShareBased(recipients[i])
            THEN recipients[i].num_shares * remaining_percentage
            ELSE IF share_recipients = <<>>
                 THEN recipients[i].percentage
                 ELSE recipients[i].percentage * total_shares]

\* Normalize without the division.
NotNormalized(result) == result

\* "Find the GCD of all non-zero values to normalize the results"
Normalize(result) ==
    LET gcd_value == GcdOfNonZero(result)
    IN  IF gcd_value > 1
        THEN [i \in DOMAIN result |-> IF result[i] = 0 THEN 0 ELSE result[i] \div gcd_value]
        ELSE result

\* "Convert result back to u64, scaling all values proportionally if any
\* overflow occurs"
ConvertToU64(result) ==
    LET max_value == MaxOf(result)
    IN  IF max_value > U64_MAX
        THEN [i \in DOMAIN result |-> Rescale(result[i], max_value)]
        ELSE [i \in DOMAIN result |-> AsU64(result[i])]

Err(error) ==
    [panic |-> FALSE, ok |-> FALSE, error |-> error, splits |-> <<>>,
     result |-> <<>>, rescaled |-> FALSE]

Ok(splits, result, rescaled) ==
    [panic |-> FALSE, ok |-> TRUE, error |-> "", splits |-> splits,
     result |-> result, rescaled |-> rescaled]

Abort ==
    [panic |-> TRUE, ok |-> FALSE, error |-> "", splits |-> <<>>,
     result |-> <<>>, rescaled |-> FALSE]

\* What a call of fee_recipients_to_splits produces.  splits: the vector in
\* Ok(..); result: the u128 vector before the GCD division; rescaled: the
\* floating-point branch of the conversion to u64 was taken.
fee_recipients_to_splits(recipients, overflow_checks) ==
    LET total_percentage == TotalPercentage(recipients)
        total_shares == TotalShares(recipients)
        raw == RawSplits(recipients)
        overflow == total_percentage > U128_MAX \/ total_shares > U128_MAX
                        \/ \E i \in DOMAIN raw : raw[i] > U128_MAX
        result == [i \in DOMAIN raw |-> raw[i] % U128_RANGE]
        normalized == Normalize(result)
    IN  IF FeeExceeds100(total_percentage)
        THEN Err("TotalFeeExceeds100")
        ELSE IF total_percentage = 100 /\ NonFeeRecipientsExist(recipients)
        THEN Err("FeeIs100ButNonFeeRecipientsExist")
        ELSE IF overflow_checks /\ overflow
        THEN Abort
        ELSE Ok(ConvertToU64(normalized), result, MaxOf(normalized) > U64_MAX)

(***************************************************************************)
(* use_remote_splits                                                       *)
(***************************************************************************)
\* remote_percentage.min(100)
Min(a, b) == IF a <= b THEN a ELSE b

\* split as u128 * percentage * total of the other side, before any u128
\* wrap-around.
ScaledSplits(splits, percentage, total_other) ==
    [i \in DOMAIN splits |-> splits[i] * percentage * total_other]

\* DivideByGcd without the division.
CastWithoutDividing(values, gcd_value) == [i \in DOMAIN values |-> AsU64(values[i])]

\* "Simplify the results using the GCD": the quotient is cast to u64; a zero
\* is kept without dividing.
DivideByGcd(values, gcd_value) ==
    [i \in DOMAIN values |->
        IF values[i] = 0 THEN 0 ELSE AsU64(values[i] \div gcd_value)]

\* What a call of use_remote_splits produces.  local, remote: the two returned
\* vectors; special: the branch taken when a total is zero; scaled_local,
\* scaled_remote, gcd_value: the locals of the main branch.
use_remote_splits(local_splits, remote_splits, remote_percentage, overflow_checks) ==
    LET capped_percentage == Min(remote_percentage, 100)
        local_percentage == 100 - capped_percentage
        total_local == SumSeq(local_splits)
        total_remote == SumSeq(remote_splits)
        special_gcd == GcdOfNonZero(local_splits \o remote_splits)
        raw_local == ScaledSplits(local_splits, local_percentage, total_remote)
        raw_remote == ScaledSplits(remote_splits, capped_percentage, total_local)
        overflow == \/ \E i \in DOMAIN raw_local : raw_local[i] > U128_MAX
                    \/ \E i \in DOMAIN raw_remote : raw_remote[i] > U128_MAX
        scaled_local == [i \in DOMAIN raw_local |-> raw_local[i] % U128_RANGE]
        scaled_remote == [i \in DOMAIN raw_remote |-> raw_remote[i] % U128_RANGE]
        gcd_value == GcdOfNonZero(scaled_local \o scaled_remote)
    IN  IF total_local = 0 \/ total_remote = 0
        THEN [panic |-> FALSE, special |-> TRUE,
              local |-> DivideByGcd(local_splits, special_gcd),
              remote |-> DivideByGcd(remote_splits, special_gcd),
              scaled_local |-> <<>>, scaled_remote |-> <<>>,
              gcd_value |-> special_gcd]
        ELSE IF overflow_checks /\ overflow
        THEN [panic |-> TRUE, special |-> FALSE, local |-> <<>>, remote |-> <<>>,
              scaled_local |-> <<>>, scaled_remote |-> <<>>, gcd_value |-> 0]
        ELSE [panic |-> FALSE, special |-> FALSE,
              local |-> DivideByGcd(scaled_local, gcd_value),
              remote |-> DivideByGcd(scaled_remote, gcd_value),
              scaled_local |-> scaled_local, scaled_remote |-> scaled_remote,
              gcd_value |-> gcd_value]

(***************************************************************************)
(* clip_recipients_at_amount                                               *)
(***************************************************************************)
\* A PaymentRecipientInfo; only num_sats is read.
PaymentRecipientInfo(num_sats) == [num_sats |-> num_sats]

\* The for loop from position k on.  `totals_sats_sent += recipient.num_sats`
\* is a u64 addition: it aborts when overflow checks are compiled in and wraps
\* otherwise.
RECURSIVE ClipLoop(_, _, _, _, _, _)
ClipLoop(recipients, k, totals_sats_sent, clipped_recipients, total_sats, overflow_checks) ==
    IF k > Len(recipients)
    THEN [panic |-> FALSE, clipped_recipients |-> clipped_recipients]
    ELSE LET sum == totals_sats_sent + recipients[k].num_sats
         IN  IF overflow_checks /\ sum > U64_MAX
             THEN [panic |-> TRUE, clipped_recipients |-> <<>>]
             ELSE IF AsU64(sum) > total_sats
             THEN [panic |-> FALSE, clipped_recipients |-> clipped_recipients]
             ELSE ClipLoop(recipients, k + 1, AsU64(sum),
                           Append(clipped_recipients, recipients[k]),
                           total_sats, overflow_checks)

clip_recipients_at_amount(total_sats, recipients, overflow_checks) ==
    ClipLoop(recipients, 1, 0, <<>>, total_sats, overflow_checks)

(***************************************************************************)
(* compute_sat_recipients of the crate root (src/lib.rs)                   *)
(***************************************************************************)
\* indices.sort_unstable_by(|&a, &b| splits[b].cmp(&splits[a])): the sort is
\* not stable, so every order of the positions with non-increasing splits is
\* a possible outcome.
DescendingOrders(splits) ==
    {indices \in [DOMAIN splits -> DOMAIN splits] :
        /\ \A a, b \in DOMAIN splits : a # b => indices[a] # indices[b]
        /\ \A k \in DOMAIN splits :
               k < Len(splits) => splits[indices[k]] >= splits[indices[k + 1]]}

\* split * total_sats / total_split in u64, before any wrap-around: the
\* product and the quotient taken from the wrapped product.
RootProducts(splits, total_sats) == [i \in DOMAIN splits |-> splits[i] * total_sats]

RootProportional(splits, total_sats) ==
    LET total_split == AsU64(SumSeq(splits))
        products == RootProducts(splits, total_sats)
    IN  [i \in DOMAIN splits |->
            IF total_split = 0 THEN 0 ELSE AsU64(products[i]) \div total_split]

\* "First pass: distribute to recipients with 0 sats", from position k of
\* indices on.
RECURSIVE RootFirstPass(_, _, _, _)
RootFirstPass(indices, k, sat_amounts, remaining_sats) ==
    IF k > Len(indices) \/ remaining_sats = 0
    THEN [sat_amounts |-> sat_amounts, remaining_sats |-> remaining_sats]
    ELSE IF sat_amounts[indices[k]] = 0
    THEN RootFirstPass(indices, k + 1, [sat_amounts EXCEPT ![indices[k]] = 1],
                       remaining_sats - 1)
    ELSE RootFirstPass(indices, k + 1, sat_amounts, remaining_sats)

\* The for loop inside the while loop of the second pass, from position k of
\* indices on; overflow: an amount went past u64::MAX.
RECURSIVE RootSecondPassRound(_, _, _, _, _)
RootSecondPassRound(indices, k, sat_amounts, remaining_sats, overflow) ==
    IF k > Len(indices) \/ remaining_sats = 0
    THEN [sat_amounts |-> sat_amounts, remaining_sats |-> remaining_sats,
          overflow |-> overflow]
    ELSE RootSecondPassRound(indices, k + 1,
             [sat_amounts EXCEPT ![indices[k]] = AsU64(@ + 1)], remaining_sats - 1,
             overflow \/ sat_amounts[indices[k]] + 1 > U64_MAX)

RootPanicked == [pc |-> "panicked", panic |-> TRUE, sat_amounts |-> <<>>,
                 remaining_sats |-> 0, indices |-> <<>>, overflow_checks |-> TRUE]

\* The function up to the head of the while loop.
RootUpToSecondPass(splits, total_sats, indices, overflow_checks) ==
    LET total_split == SumSeq(splits)
        products == RootProducts(splits, total_sats)
        sat_amounts == RootProportional(splits, total_sats)
        distributed_sats == SumSeq(sat_amounts)
        overflow == \/ total_split > U64_MAX
                    \/ \E i \in DOMAIN products :
                           AsU64(total_split) # 0 /\ products[i] > U64_MAX
                    \/ distributed_sats > U64_MAX
                    \/ AsU64(distributed_sats) > total_sats
        remaining_sats == AsU64(total_sats - AsU64(distributed_sats))
        first == IF remaining_sats > 0
                 THEN RootFirstPass(indices, 1, sat_amounts, remaining_sats)
                 ELSE [sat_amounts |-> sat_amounts, remaining_sats |-> remaining_sats]
    IN  IF overflow_checks /\ overflow
        THEN RootPanicked
        ELSE [pc |-> "second pass", panic |-> FALSE, sat_amounts |-> first.sat_amounts,
              remaining_sats |-> first.remaining_sats, indices |-> indices,
              overflow_checks |-> overflow_checks]

(***************************************************************************)
(* The clients of the library.                                             *)
(***************************************************************************)
\* Sequences over S of length 0 .. n.
SeqsUpTo(S, n) == UNION {[1..k -> S] : k \in 0..n}

SplitValues == {0, 1, 4, U64_MAX}
SplitVectors == SeqsUpTo(SplitValues, MaxLen)
\* Longer vectors: a few recipients with positive splits followed by
\* recipients whose split is zero.
HeavyValues == {1, 4, 5, 6}
LongTailVectors ==
    {heavy \o [i \in 1..k |-> 0] :
        heavy \in SeqsUpTo(HeavyValues, MaxHeavy), k \in 0..MaxTail}
Budgets == {0, 1, 3, 4, 12, Pow2(Width - 1), U64_MAX}

Init ==
    /\ call = [fn |-> "none"]
    /\ ret = [panic |-> FALSE]

\* A client makes one call; the library keeps nothing between calls, so a
\* behaviour is one call from the initial state.
CallComputeSatRecipients ==
    /\ call.fn = "none"
    /\ \E splits \in SplitVectors \cup LongTailVectors, total_sats \in Budgets,
          overflow_checks \in BOOLEAN :
        /\ call' = [fn |-> "compute_sat_recipients", splits |-> splits,
                    total_sats |-> total_sats]
        /\ ret' = compute_sat_recipients(splits, total_sats, overflow_checks)

NextSat == CallComputeSatRecipients

SpecSat == Init /\ [][NextSat]_vars

ShareValues == {0, 1, 2, U64_MAX}
PercentageValues == {0, 1, 50, 99, 100}
Recipients == {ShareBased(n) : n \in ShareValues}
                  \cup {PercentageBased(p) : p \in PercentageValues}
RecipientVectors == SeqsUpTo(Recipients, MaxRecipients)

CallFeeRecipientsToSplits ==
    /\ call.fn = "none"
    /\ \E recipients \in RecipientVectors, overflow_checks \in BOOLEAN :
        /\ call' = [fn |-> "fee_recipients_to_splits", recipients |-> recipients]
        /\ ret' = fee_recipients_to_splits(recipients, overflow_checks)

\* The list [ShareBased { num_shares: v[i] }] built from a returned vector v.
AsShareBased(v) == [i \in DOMAIN v |-> ShareBased(v[i])]

\* A client feeds the vector of an Ok(v) back in, every entry as the number of
\* shares of a share-based recipient.
CallFeeRecipientsToSplitsAgain ==
    /\ call.fn = "fee_recipients_to_splits"
    /\ ~ret.panic /\ ret.ok
    /\ \E overflow_checks \in BOOLEAN :
        /\ call' = [fn |-> "fee_recipients_to_splits again",
                    recipients |-> AsShareBased(ret.splits),
                    previous |-> ret.splits]
        /\ ret' = fee_recipients_to_splits(AsShareBased(ret.splits), overflow_checks)

NextFee == CallFeeRecipientsToSplits \/ CallFeeRecipientsToSplitsAgain

SpecFee == Init /\ [][NextFee]_vars

RemoteSplitValues == {0, 1, 2, U64_MAX}
RemoteSplitVectors == SeqsUpTo(RemoteSplitValues, MaxSplits)
RemotePercentages == {0, 1, 50, 90, 100, 101, U64_MAX}

CallUseRemoteSplits ==
    /\ call.fn = "none"
    /\ \E local_splits \in RemoteSplitVectors, remote_splits \in RemoteSplitVectors,
          remote_percentage \in RemotePercentages, overflow_checks \in BOOLEAN :
        /\ call' = [fn |-> "use_remote_splits", local_splits |-> local_splits,
                    remote_splits |-> remote_splits,
                    remote_percentage |-> remote_percentage]
        /\ ret' = use_remote_splits(local_splits, remote_splits, remote_percentage,
                                    overflow_checks)

NextRemote == CallUseRemoteSplits

SpecRemote == Init /\ [][NextRemote]_vars

ClipSatValues == {0, 1, 2, U64_MAX}
ClipRecipientVectors ==
    SeqsUpTo({PaymentRecipientInfo(num_sats) : num_sats \in ClipSatValues}, MaxClipped)
ClipBudgets == {0, 1, 2, 3, U64_MAX}

CallClipRecipientsAtAmount ==
    /\ call.fn = "none"
    /\ \E total_sats \in ClipBudgets, recipients \in ClipRecipientVectors,
          overflow_checks \in BOOLEAN :
        /\ call' = [fn |-> "clip_recipients_at_amount", total_sats |-> total_sats,
                    recipients |-> recipients]
        /\ ret' = clip_recipients_at_amount(total_sats, recipients, overflow_checks)

NextClip == CallClipRecipientsAtAmount

SpecClip == Init /\ [][NextClip]_vars

RootSplitValues == {0, 1, U64_MAX}
RootSplitVectors == SeqsUpTo(RootSplitValues, MaxRootLen)
RootBudgets == {0, 1, 3, U64_MAX}

\* A client calls the crate-root compute_sat_recipients; the call runs up to
\* the head of the while loop of the second pass.
CallRootComputeSatRecipients ==
    /\ call.fn = "none"
    /\ \E splits \in RootSplitVectors, total_sats \in RootBudgets,
          overflow_checks \in BOOLEAN :
        \E indices \in DescendingOrders(splits) :
            /\ call' = [fn |-> "crate::compute_sat_recipients", splits |-> splits,
                        total_sats |-> total_sats]
            /\ ret' = RootUpToSecondPass(splits, total_sats, indices, overflow_checks)

\* while remaining_sats > 0 { for &i in &indices { .. } }: one turn of the
\* while loop.
RootSecondPass ==
    /\ call.fn = "crate::compute_sat_recipients"
    /\ ret.pc = "second pass"
    /\ ret.remaining_sats > 0
    /\ LET round == RootSecondPassRound(ret.indices, 1, ret.sat_amounts,
                                         ret.remaining_sats, FALSE)
       IN  ret' = IF ret.overflow_checks /\ round.overflow
                  THEN RootPanicked
                  ELSE [ret EXCEPT !.sat_amounts = round.sat_amounts,
                                   !.remaining_sats = round.remaining_sats]
    /\ UNCHANGED call

\* "Redundant check to make sure we are distributing the initial amount",
\* then the return.
RootCheckAndReturn ==
    /\ call.fn = "crate::compute_sat_recipients"
    /\ ret.pc = "second pass"
    /\ ret.remaining_sats = 0
    /\ LET sum == SumSeq(ret.sat_amounts)
       IN  ret' = IF (ret.overflow_checks /\ sum > U64_MAX)
                        \/ AsU64(sum) # call.total_sats
                  THEN RootPanicked
                  ELSE [ret EXCEPT !.pc = "returned"]
    /\ UNCHANGED call

NextRoot == CallRootComputeSatRecipients \/ RootSecondPass \/ RootCheckAndReturn

SpecRoot == Init /\ [][NextRoot]_vars /\ WF_vars(NextRoot)

Next == NextSat \/ NextFee \/ NextRemote \/ NextClip \/ NextRoot

Spec == Init /\ [][Next]_vars

(***************************************************************************)
(* Properties.                                                             *)
(***************************************************************************)
SatCall == call.fn = "compute_sat_recipients"
SatReturned == SatCall /\ ~ret.panic
FeeCall == call.fn = "fee_recipients_to_splits"
FeeOk == FeeCall /\ ~ret.panic /\ ret.ok

\* Sum of f[i] over the index set I.
RECURSIVE SumOver(_, _)
SumOver(f, I) ==
    IF I = {} THEN 0
    ELSE LET i == CHOOSE x \in I : TRUE IN f[i] + SumOver(f, I \ {i})

\* Positions of the recipients with a positive split.
PositiveSplits(splits) == {i \in DOMAIN splits : splits[i] > 0}

\* Place of position i in the order "descending split, then ascending index".
PriorityRank(splits, i) ==
    1 + Cardinality({j \in DOMAIN splits :
            splits[j] > splits[i] \/ (splits[j] = splits[i] /\ j < i)})

\* C1: for every non-empty splits vector and every budget, the vector that
\* compute_sat_recipients returns sums to the budget exactly.
C1_SumIsBudget ==
    (SatReturned /\ call.splits # <<>>)
        => SumOver(ret.sat_amounts, DOMAIN ret.sat_amounts) = call.total_sats

\* C2: when at least one split is positive and the budget is at least the
\* number of positive splits, every recipient with a positive split gets at
\* least one sat.
C2_PositiveSplitGetsSat ==
    (SatReturned /\ PositiveSplits(call.splits) # {}
                 /\ call.total_sats >= Cardinality(PositiveSplits(call.splits)))
        => \A i \in PositiveSplits(call.splits) : ret.sat_amounts[i] >= 1

\* C3: when the budget b is smaller than the number of recipients, exactly the
\* first b recipients in the order "descending split, then ascending index"
\* hold one sat and all the others hold none.
C3_SmallBudgetOneSatEach ==
    (SatReturned /\ call.total_sats < Len(call.splits))
        => ret.sat_amounts =
               [i \in DOMAIN call.splits |->
                    IF PriorityRank(call.splits, i) <= call.total_sats THEN 1 ELSE 0]

\* C4: an empty splits vector gives an empty result, a budget of zero gives
\* one zero per recipient, and every result has one entry per split.
C4_EmptyAndZero ==
    SatCall =>
        /\ (call.splits = <<>> \/ call.total_sats = 0) => ~ret.panic
        /\ (~ret.panic /\ call.splits = <<>>) => ret.sat_amounts = <<>>
        /\ (~ret.panic /\ call.total_sats = 0)
               => /\ Len(ret.sat_amounts) = Len(call.splits)
                  /\ \A i \in DOMAIN ret.sat_amounts : ret.sat_amounts[i] = 0
        /\ ~ret.panic => DOMAIN ret.sat_amounts = DOMAIN call.splits

C4_Witness ==
    /\ SatReturned
    /\ Len(call.splits) = 3
    /\ call.splits[2] = U64_MAX
    /\ call.total_sats = 0
    /\ ret.sat_amounts = <<0, 0, 0>>

\* C5: a single recipient receives the whole budget, whatever its split
\* (zero and u64::MAX included) and whatever the budget.
C5_SingleRecipient ==
    (SatCall /\ Len(call.splits) = 1)
        => (~ret.panic /\ ret.sat_amounts = <<call.total_sats>>)

C5_Witness ==
    /\ SatReturned
    /\ call.splits = <<U64_MAX>>
    /\ call.total_sats = U64_MAX
    /\ ret.sat_amounts = <<U64_MAX>>

\* Sum of the declared percentages and the positions of each kind.
PercentagePositions(recipients) ==
    {i \in DOMAIN recipients : recipients[i].kind = "PercentageBased"}
SharePositions(recipients) ==
    {i \in DOMAIN recipients : recipients[i].kind = "ShareBased"}
DeclaredPercentage(recipients) ==
    SumOver([i \in DOMAIN recipients |->
                IF i \in PercentagePositions(recipients)
                THEN recipients[i].percentage ELSE 0], DOMAIN recipients)

\* C6: fee_recipients_to_splits fails with TotalFeeExceeds100 exactly when the
\* percentages sum to more than 100, with or without share-based recipients.
C6_TotalFeeExceeds100 ==
    FeeCall =>
        ((~ret.panic /\ ~ret.ok /\ ret.error = "TotalFeeExceeds100")
            <=> DeclaredPercentage(call.recipients) > 100)

C6_Witness ==
    /\ FeeCall
    /\ SharePositions(call.recipients) # {}
    /\ DeclaredPercentage(call.recipients) = 101
    /\ ret.error = "TotalFeeExceeds100"

\* C7: fee_recipients_to_splits fails with FeeIs100ButNonFeeRecipientsExist
\* exactly when the percentages sum to 100 and a share-based recipient is
\* present (even with zero shares); every other list whose percentages sum to
\* at most 100 gives Ok.
C7_FeeIs100ButNonFeeRecipientsExist ==
    FeeCall =>
        LET contradictory == /\ DeclaredPercentage(call.recipients) = 100
                             /\ SharePositions(call.recipients) # {}
        IN  /\ (~ret.panic /\ ~ret.ok /\ ret.error = "FeeIs100ButNonFeeRecipientsExist")
                   <=> contradictory
            /\ (DeclaredPercentage(call.recipients) <= 100 /\ ~contradictory)
                   => (~ret.panic /\ ret.ok)

C7_Witness ==
    /\ FeeCall
    /\ DeclaredPercentage(call.recipients) = 100
    /\ \E i \in SharePositions(call.recipients) : call.recipients[i].num_shares = 0
    /\ \A i \in SharePositions(call.recipients) : call.recipients[i].num_shares = 0
    /\ ret.error = "FeeIs100ButNonFeeRecipientsExist"

\* C8: when Ok(v) is returned without the rescale fallback, the ratios inside
\* each kind are kept: v[i] * shares[j] = v[j] * shares[i] for share-based
\* i, j and v[i] * percentage[j] = v[j] * percentage[i] for percentage-based
\* i, j.
C8_RatiosWithinKind ==
    (FeeOk /\ ~ret.rescaled) =>
        /\ \A i, j \in SharePositions(call.recipients) :
               ret.splits[i] * call.recipients[j].num_shares
                   = ret.splits[j] * call.recipients[i].num_shares
        /\ \A i, j \in PercentagePositions(call.recipients) :
               ret.splits[i] * call.recipients[j].percentage
                   = ret.splits[j] * call.recipients[i].percentage

C8_Witness ==
    /\ FeeOk /\ ~ret.rescaled
    /\ \E i, j \in SharePositions(call.recipients) :
           /\ call.recipients[i].num_shares = 1
           /\ call.recipients[j].num_shares = 2
           /\ ret.splits[i] # ret.splits[j] /\ ret.splits[i] > 0
    /\ \E i, j \in PercentagePositions(call.recipients) :
           /\ call.recipients[i].percentage = 1
           /\ call.recipients[j].percentage = 50

\* The two aggregate proportions of C9: the percentage-based recipients make
\* up total_percentage percent of the whole and the share-based ones the rest.
AggregateProportions ==
    LET v == ret.splits
        total == SumOver(v, DOMAIN v)
        total_percentage == DeclaredPercentage(call.recipients)
    IN  /\ 100 * SumOver(v, PercentagePositions(call.recipients))
               = total_percentage * total
        /\ 100 * SumOver(v, SharePositions(call.recipients))
               = (100 - total_percentage) * total

\* C9 as stated: for every Ok(v), the percentage-based recipients together
\* make up exactly total_percentage percent of the whole and the share-based
\* recipients the remaining 100 - total_percentage percent.
C9_AggregateProportionsAlways == FeeOk => AggregateProportions

\* C9 amended: the same, for every Ok(v) returned for a list with at least one
\* share-based recipient and without the rescale fallback.
C9_AggregateProportions ==
    (FeeOk /\ ~ret.rescaled /\ SharePositions(call.recipients) # {})
        => AggregateProportions

C9_Witness ==
    /\ FeeOk /\ ~ret.rescaled
    /\ \E i \in SharePositions(call.recipients) : ret.splits[i] > 0
    /\ \E i \in PercentagePositions(call.recipients) : ret.splits[i] > 0
    /\ DeclaredPercentage(call.recipients) = 51

\* v is in lowest terms: no divisor above 1 is shared by all its entries.
LowestTerms(v) ==
    LET nonzero == {v[i] : i \in DOMAIN v} \ {0}
        least == CHOOSE m \in nonzero : \A x \in nonzero : m <= x
    IN  nonzero # {} => \A d \in 2..least : \E x \in nonzero : x % d # 0

\* C10: when Ok(v) is returned without the rescale fallback, v has one entry
\* per recipient, a raw weight of zero stays zero, and v is in lowest terms.
C10_ReducedToLowestTerms ==
    (FeeOk /\ ~ret.rescaled) =>
        /\ DOMAIN ret.splits = DOMAIN call.recipients
        /\ \A i \in DOMAIN ret.splits : ret.result[i] = 0 => ret.splits[i] = 0
        /\ \A i \in SharePositions(call.recipients) :
               call.recipients[i].num_shares = 0 => ret.splits[i] = 0
        /\ \A i \in PercentagePositions(call.recipients) :
               call.recipients[i].percentage = 0 => ret.splits[i] = 0
        /\ LowestTerms(ret.splits)

C10_Witness ==
    /\ FeeOk /\ ~ret.rescaled
    /\ \E i \in DOMAIN ret.splits : ret.splits[i] = 0
    /\ \E i \in DOMAIN ret.splits : ret.splits[i] > 1 /\ ret.result[i] > ret.splits[i]

FeeAgain == call.fn = "fee_recipients_to_splits again"

\* C11: when the vector v of an Ok(v) is fed back in as share-based
\* recipients, the call returns Ok(v') and v' has the proportions of v:
\* v'[i] * v[j] = v'[j] * v[i] for all positions i, j.
C11_Idempotence ==
    FeeAgain =>
        /\ ~ret.panic /\ ret.ok
        /\ DOMAIN ret.splits = DOMAIN call.previous
        /\ \A i, j \in DOMAIN call.previous :
               ret.splits[i] * call.previous[j] = ret.splits[j] * call.previous[i]

C11_Witness ==
    /\ FeeAgain /\ ret.ok
    /\ \E i, j \in DOMAIN call.previous :
           /\ call.previous[j] > 1
           /\ call.previous[i] > call.previous[j]
           /\ ret.splits[i] > ret.splits[j]
    /\ \E i \in DOMAIN call.previous : call.previous[i] = 0

RemoteCall == call.fn = "use_remote_splits"
RemoteReturned == RemoteCall /\ ~ret.panic
\* Both input totals are positive.
BothTotalsPositive ==
    /\ SumOver(call.local_splits, DOMAIN call.local_splits) > 0
    /\ SumOver(call.remote_splits, DOMAIN call.remote_splits) > 0

\* C12: when both totals are positive, use_remote_splits returns (L, R) with
\* 100 * sum(R) = min(p, 100) * (sum(L) + sum(R)) for every remote_percentage
\* p: the remote side is exactly min(p, 100) percent of the whole.
C12_RemoteShare ==
    (RemoteReturned /\ BothTotalsPositive) =>
        LET sum_local == SumOver(ret.local, DOMAIN ret.local)
            sum_remote == SumOver(ret.remote, DOMAIN ret.remote)
        IN  100 * sum_remote
                = Min(call.remote_percentage, 100) * (sum_local + sum_remote)

\* C13: use_remote_splits keeps the proportions inside each vector:
\* L[i] * local[j] = L[j] * local[i] and R[i] * remote[j] = R[j] * remote[i]
\* for all positions, and the outputs have the lengths of the inputs.
C13_InternalProportions ==
    RemoteReturned =>
        /\ DOMAIN ret.local = DOMAIN call.local_splits
        /\ DOMAIN ret.remote = DOMAIN call.remote_splits
        /\ \A i, j \in DOMAIN call.local_splits :
               ret.local[i] * call.local_splits[j] = ret.local[j] * call.local_splits[i]
        /\ \A i, j \in DOMAIN call.remote_splits :
               ret.remote[i] * call.remote_splits[j]
                   = ret.remote[j] * call.remote_splits[i]

\* C14: a recipient with a strictly larger split never receives fewer sats
\* than one with a smaller split: w[i] > w[j] implies u[i] >= u[j].
C14_HigherSplitNotFewerSats ==
    SatReturned =>
        \A i, j \in DOMAIN call.splits :
            call.splits[i] > call.splits[j] => ret.sat_amounts[i] >= ret.sat_amounts[j]

\* C15: when at least one split is positive and the budget is at least the
\* number of recipients, every recipient gets at least one sat, those with a
\* zero split included.
C15_EveryoneGetsSat ==
    (SatReturned /\ PositiveSplits(call.splits) # {}
                 /\ call.total_sats >= Len(call.splits))
        => \A i \in DOMAIN call.splits : ret.sat_amounts[i] >= 1

\* C16: compute_sat_recipients never returns a vector whose sum differs from
\* the budget; when the adjusted allocation does not add up, the call aborts.
C16_WrongTotalAborts ==
    (SatCall /\ ret.path \in {"less", "greater", "equal"}
             /\ SumOver(ret.sat_amounts, DOMAIN ret.sat_amounts) # call.total_sats)
        => ret.panic

\* C17: among recipients with equal splits the earlier position never holds
\* fewer sats than the later one: i < j and w[i] = w[j] imply u[i] >= u[j],
\* on every path of compute_sat_recipients.
C17_TieBreakByPosition ==
    SatReturned =>
        \A i, j \in DOMAIN call.splits :
            (i < j /\ call.splits[i] = call.splits[j])
                => ret.sat_amounts[i] >= ret.sat_amounts[j]

C17_Witness ==
    /\ SatReturned /\ ret.path = "less"
    /\ \E i, j \in DOMAIN call.splits :
           /\ i < j /\ call.splits[i] = call.splits[j] /\ call.splits[i] > 0
           /\ ret.with_minimum[i] = ret.with_minimum[j]
           /\ ret.sat_amounts[i] > ret.sat_amounts[j]

\* C18: when every split is zero and the vector is not empty, every recipient
\* gets floor(b / n) sats and each of the first (b mod n) recipients one more.
C18_AllZeroEvenDistribution ==
    (SatCall /\ call.splits # <<>> /\ PositiveSplits(call.splits) = {}) =>
        LET n == Len(call.splits)
            b == call.total_sats
        IN  /\ ~ret.panic
            /\ ret.sat_amounts =
                   [i \in DOMAIN call.splits |->
                        (b \div n) + (IF i <= b % n THEN 1 ELSE 0)]

C18_Witness ==
    /\ SatReturned /\ ret.path = "even"
    /\ call.splits = <<0, 0, 0, 0, 0>>
    /\ call.total_sats = 12
    /\ ret.sat_amounts = <<3, 3, 2, 2, 2>>

\* C19: when no split is zero and the budget b is an exact multiple of the
\* total split W, the call returns u[i] = w[i] * b / W for every i, and the
\* balance computed after the one-sat step is zero.
C19_ExactMultiple ==
    (SatCall /\ call.splits # <<>>
             /\ PositiveSplits(call.splits) = DOMAIN call.splits
             /\ call.total_sats % SumOver(call.splits, DOMAIN call.splits) = 0) =>
        LET total_split == SumOver(call.splits, DOMAIN call.splits)
        IN  /\ ~ret.panic
            /\ ret.sat_amounts =
                   [i \in DOMAIN call.splits |->
                        (call.splits[i] * call.total_sats) \div total_split]
            /\ call.total_sats > 0 => (ret.path = "equal" /\ ret.balance = 0)

C19_Witness ==
    /\ SatReturned /\ ret.path = "equal"
    /\ call.splits = <<1, 4, 1>>
    /\ call.total_sats = 12
    /\ ret.sat_amounts = <<2, 8, 2>>

\* C20: whenever the call returns and the allocation after the one-sat step
\* sums to less than the budget, the shortfall k is at most n, the result is
\* that allocation plus one sat for each of the first k recipients in the order
\* "descending split, then ascending index", and the balance ends at zero.
C20_SurplusPath ==
    (SatReturned /\ ret.path \notin {"empty", "even"}
                 /\ SumOver(ret.with_minimum, DOMAIN ret.with_minimum) < call.total_sats) =>
        LET k == call.total_sats - SumOver(ret.with_minimum, DOMAIN ret.with_minimum)
        IN  /\ ret.path = "greater"
            /\ k <= Len(call.splits)
            /\ ret.balance = k
            /\ ret.sat_amounts =
                   [i \in DOMAIN call.splits |->
                        ret.with_minimum[i]
                            + (IF PriorityRank(call.splits, i) <= k THEN 1 ELSE 0)]
            /\ ret.final_balance = 0

C20_Witness ==
    /\ SatReturned /\ ret.path = "greater" /\ ret.balance >= 2
    /\ \E i, j \in DOMAIN call.splits :
           /\ i < j /\ call.splits[i] = call.splits[j]
           /\ ret.sat_amounts[i] = ret.with_minimum[i] + 1
           /\ ret.sat_amounts[j] = ret.with_minimum[j]
    /\ \E i, j \in DOMAIN call.splits :
           /\ i < j /\ call.splits[i] < call.splits[j]
           /\ ret.sat_amounts[i] = ret.with_minimum[i]
           /\ ret.sat_amounts[j] = ret.with_minimum[j] + 1

\* The call went past the two early returns, so the proportional step and the
\* one-sat step ran.
SatGeneralPath == SatCall /\ ret.path \notin {"empty", "even"}

\* C21 as stated: in the one-sat step a recipient whose proportional amount
\* is 0 is raised to 1 only when its split is non-zero; a zero split stays
\* at 0.
C21_OnlyNonZeroSplitRaised ==
    SatGeneralPath =>
        \A i \in DOMAIN call.splits :
            ret.with_minimum[i] =
                IF ret.proportional[i] = 0 /\ call.splits[i] # 0
                THEN 1 ELSE ret.proportional[i]

\* C21 amended: in the one-sat step every recipient whose proportional amount
\* floor(w[i] * b / W) is 0 is raised to 1, whatever its split, a zero split
\* included; the other amounts are left alone.
C21_EveryZeroAmountRaised ==
    SatGeneralPath =>
        LET total_split == SumOver(call.splits, DOMAIN call.splits)
        IN  \A i \in DOMAIN call.splits :
                /\ ret.proportional[i] = (call.splits[i] * call.total_sats) \div total_split
                /\ ret.with_minimum[i] =
                       IF ret.proportional[i] = 0 THEN 1 ELSE ret.proportional[i]

C21_Witness ==
    /\ SatGeneralPath /\ ~ret.panic
    /\ \E i \in DOMAIN call.splits :
           call.splits[i] = 0 /\ ret.proportional[i] = 0 /\ ret.with_minimum[i] = 1
    /\ \E i \in DOMAIN call.splits :
           call.splits[i] > 0 /\ ret.proportional[i] = 0 /\ ret.with_minimum[i] = 1
    /\ \E i \in DOMAIN call.splits : ret.with_minimum[i] = ret.proportional[i]

\* floor(w[i] * b / W) of the call, for a positive total split W.
Baseline(i) ==
    (call.splits[i] * call.total_sats) \div SumOver(call.splits, DOMAIN call.splits)

\* C22: whenever the call returns for splits with a positive total, no
\* recipient holds more than floor(w[i] * b / W) + 1 sats, and when every
\* floor(w[i] * b / W) is at least 1 every recipient holds floor(w[i] * b / W)
\* or one more.
C22_ApproximatesProportionalShare ==
    (SatReturned /\ PositiveSplits(call.splits) # {}) =>
        /\ \A i \in DOMAIN call.splits : ret.sat_amounts[i] <= Baseline(i) + 1
        /\ (\A i \in DOMAIN call.splits : Baseline(i) >= 1)
               => \A i \in DOMAIN call.splits :
                      ret.sat_amounts[i] \in {Baseline(i), Baseline(i) + 1}

C22_Witness ==
    /\ SatReturned /\ ret.path = "greater" /\ ret.balance >= 2
    /\ \A i \in DOMAIN call.splits : Baseline(i) >= 1
    /\ \E i \in DOMAIN call.splits : ret.sat_amounts[i] = Baseline(i) + 1
    /\ \E i \in DOMAIN call.splits : ret.sat_amounts[i] = Baseline(i)

\* The largest number that divides every non-zero entry of v, 0 when v has no
\* non-zero entry.
LargestCommonDivisor(v) ==
    LET nonzero == {v[i] : i \in DOMAIN v} \ {0}
        least == CHOOSE m \in nonzero : \A x \in nonzero : m <= x
    IN  IF nonzero = {} THEN 0
        ELSE CHOOSE d \in 1..least :
                 /\ \A x \in nonzero : x % d = 0
                 /\ \A e \in (d + 1)..least : \E x \in nonzero : x % e # 0

\* C23: when the local total or the remote total is zero, use_remote_splits
\* returns, for every remote_percentage and without aborting, each input
\* vector divided entry by entry by the greatest common divisor of the
\* non-zero entries of both vectors; zeros stay zeros, also when every entry
\* of both vectors is zero.
C23_DegenerateMixing ==
    (RemoteCall /\ ~BothTotalsPositive) =>
        LET g == LargestCommonDivisor(call.local_splits \o call.remote_splits)
        IN  /\ ~ret.panic
            /\ DOMAIN ret.local = DOMAIN call.local_splits
            /\ DOMAIN ret.remote = DOMAIN call.remote_splits
            /\ \A i \in DOMAIN call.local_splits :
                   /\ ret.local[i] * g = call.local_splits[i]
                   /\ call.local_splits[i] = 0 => ret.local[i] = 0
            /\ \A i \in DOMAIN call.remote_splits :
                   /\ ret.remote[i] * g = call.remote_splits[i]
                   /\ call.remote_splits[i] = 0 => ret.remote[i] = 0

C23_Witness ==
    /\ RemoteReturned /\ ret.special
    /\ call.remote_percentage = 50
    /\ call.local_splits = <<0, 0>>
    /\ call.remote_splits = <<2, 2>>
    /\ ret.local = <<0, 0>>
    /\ ret.remote = <<1, 1>>

\* C24: when both totals are positive, the returned pair is jointly in lowest
\* terms, an output entry is zero exactly when its input split is zero or the
\* percentage of its side is zero, and the combined GCD is not zero.
C24_JointlyLowestTerms ==
    (RemoteReturned /\ BothTotalsPositive) =>
        LET remote_percentage == Min(call.remote_percentage, 100)
            local_percentage == 100 - remote_percentage
        IN  /\ ret.gcd_value # 0
            /\ LowestTerms(ret.local \o ret.remote)
            /\ \A i \in DOMAIN call.local_splits :
                   ret.local[i] = 0 <=> (call.local_splits[i] = 0 \/ local_percentage = 0)
            /\ \A i \in DOMAIN call.remote_splits :
                   ret.remote[i] = 0 <=> (call.remote_splits[i] = 0 \/ remote_percentage = 0)

\* C26: in use_remote_splits every scaled value split * percentage * total of
\* the other side fits the wide type, so the call does not abort and nothing
\* wraps, and every quotient by the combined GCD fits the narrow type, so the
\* cast to u64 truncates nothing.
C26_RemoteOverflowSafety ==
    (RemoteCall /\ BothTotalsPositive) =>
        LET remote_percentage == Min(call.remote_percentage, 100)
            local_percentage == 100 - remote_percentage
            total_local == SumOver(call.local_splits, DOMAIN call.local_splits)
            total_remote == SumOver(call.remote_splits, DOMAIN call.remote_splits)
        IN  /\ ~ret.panic
            /\ \A i \in DOMAIN call.local_splits :
                   /\ ret.scaled_local[i]
                          = call.local_splits[i] * local_percentage * total_remote
                   /\ ret.scaled_local[i] # 0
                          => ret.scaled_local[i] \div ret.gcd_value <= U64_MAX
            /\ \A i \in DOMAIN call.remote_splits :
                   /\ ret.scaled_remote[i]
                          = call.remote_splits[i] * remote_percentage * total_local
                   /\ ret.scaled_remote[i] # 0
                          => ret.scaled_remote[i] \div ret.gcd_value <= U64_MAX

\* C25: for splits up to u64::MAX and every budget, the sum of the splits and
\* the products split * total_sats and split * |balance| fit the wide type,
\* and every proportional amount is exactly floor(w[i] * b / W).
C25_SatOverflowSafety ==
    SatGeneralPath =>
        LET total_split == SumOver(call.splits, DOMAIN call.splits)
        IN  /\ total_split <= U128_MAX
            /\ \A i \in DOMAIN call.splits :
                   /\ call.splits[i] * call.total_sats <= U128_MAX
                   /\ ret.proportional[i] = Baseline(i)
                   /\ ret.balance < 0
                          => call.splits[i] * unsigned_abs(ret.balance) <= U128_MAX

C25_Witness ==
    /\ SatReturned /\ ret.path = "less"
    /\ SumOver(call.splits, DOMAIN call.splits) > 2 * U64_MAX
    /\ call.total_sats > Len(call.splits)
    /\ \E i \in DOMAIN call.splits :
           /\ call.splits[i] = U64_MAX
           /\ call.splits[i] * call.total_sats > U64_MAX
           /\ ret.proportional[i] > 1

ClipReturned == call.fn = "clip_recipients_at_amount" /\ ~ret.panic

\* Sum of the num_sats of the first k recipients of the call.
CumulativeSats(k) ==
    SumOver([i \in 1..k |-> call.recipients[i].num_sats], 1..k)

\* C27: clip_recipients_at_amount returns the longest prefix of recipients
\* whose cumulative num_sats is at most total_sats: it stops at the first
\* recipient that takes the running total above total_sats, so the result is
\* in the original order and its num_sats never sum to more than total_sats.
C27_LongestAffordablePrefix ==
    ClipReturned =>
        LET kept == Len(ret.clipped_recipients)
        IN  /\ kept <= Len(call.recipients)
            /\ ret.clipped_recipients = SubSeq(call.recipients, 1, kept)
            /\ CumulativeSats(kept) <= call.total_sats
            /\ kept < Len(call.recipients) => CumulativeSats(kept + 1) > call.total_sats

\* C28: whenever fee_recipients_to_splits returns Ok(v), every
\* percentage-based recipient with a positive percentage has v[i] > 0, and
\* when the percentages sum to less than 100 every share-based recipient with
\* a positive number of shares has v[i] > 0.
C28_PositiveStaysPositive ==
    FeeOk =>
        /\ \A i \in PercentagePositions(call.recipients) :
               call.recipients[i].percentage > 0 => ret.splits[i] > 0
        /\ DeclaredPercentage(call.recipients) < 100
               => \A i \in SharePositions(call.recipients) :
                      call.recipients[i].num_shares > 0 => ret.splits[i] > 0

\* C29: the signed balance is the true difference between the budget and the
\* sum of the allocation after the one-sat step, for every u64 budget: the
\* u64 sum does not overflow, the i64 subtraction does not overflow, and the
\* call does not abort on either.
C29_BalanceIsTrueDifference ==
    SatGeneralPath =>
        LET sum == SumOver(ret.with_minimum, DOMAIN ret.with_minimum)
            difference == AsI64(call.total_sats) - AsI64(sum)
        IN  /\ sum <= U64_MAX
            /\ difference >= I64_MIN /\ difference <= I64_MAX
            /\ ~ret.panic
            /\ ret.balance = call.total_sats - sum

RootCall == call.fn = "crate::compute_sat_recipients"
RootDone == RootCall /\ ret.pc \in {"returned", "panicked"}

\* C30: every call of the crate-root compute_sat_recipients comes to an end,
\* an empty splits list with a positive budget included: each turn of the
\* while loop of the second pass lowers remaining_sats until the function
\* returns.
C30_RootTerminates == RootCall ~> RootDone

====
